---------------------------- MODULE Spec2Model ----------------------------
(***************************************************************************)
(* A model of src/app.py: a Flask CRM with three tables (User, Customer,   *)
(* Task), a signed-cookie session per client, a seeding routine run at     *)
(* start-up, and the handlers home, register, login, add_customer,         *)
(* add_task, logout and health_check.                                      *)
(*                                                                         *)
(* Tables are sequences of rows in insertion order; nothing is ever        *)
(* deleted, so a new row's primary key is the table's length plus one.     *)
(* Strings that the code parses (the due_date form field) are sequences    *)
(* of one-character strings, so that the parser is modelled by what it     *)
(* does.                                                                   *)
(***************************************************************************)
EXTENDS Integers, Sequences, FiniteSets, TLC

VARIABLES
    mode,        \* "import" (loaded by an external server) or "main" (python app.py)
    fk_enforced, \* whether the engine behind DATABASE_URL enforces FOREIGN KEY
    phase,       \* "start", "seeded" (after line 173) or "serving"
    routes,      \* endpoints registered on app so far
    users,       \* table user
    customers,   \* table customer
    tasks,       \* table task
    session,     \* client -> the session dict its cookie decodes to
    reg,         \* client -> register POSTs past the check of line 76, not yet committed
    last         \* the last step taken and the response it produced

vars == <<mode, fk_enforced, phase, routes, users, customers, tasks, session, reg, last>>

tables == <<users, customers, tasks>>

-----------------------------------------------------------------------------
(* Bounds of the model *)

\* rows the customer table may hold (the code has no cap)
MaxCustomers == 3

\* rows the task table may hold under Spec (the code has no cap)
MaxTasks == 3

\* rows the task table may hold under SpecTask
TaskMaxTasks == 3

\* rows the task table may hold under SpecDash, so that one user owns more than 5
DashMaxTasks == 7

Clients == {"c1", "c2"}

ADMIN_EMAIL == "admin@example.com"

Emails == {ADMIN_EMAIL, "alice@example.com"}

Passwords == {"admin123", "pw"}

Salts == {"s1"}

-----------------------------------------------------------------------------
(* Values *)

None == "None"

\* a nullable foreign key, or an optional form field that carries a row id: the
\* empty sequence when absent (NULL), else the sequence of the one id
Null == <<>>

Ref(id) == <<id>>

Min(a, b) == IF a < b THEN a ELSE b

\* The session dict: a function whose domain holds the key "user_id" or nothing.
EmptySession == [k \in {} |-> 0]

LoggedIn(s) == "user_id" \in DOMAIN s

\* a logout that leaves the session as it is
Pop_keeps(s) == s

\* session.pop('user_id', None)
Pop(s) == [k \in (DOMAIN s) \ {"user_id"} |-> s[k]]

\* datetime(y, m, d): the time of day defaults to midnight
Datetime(y, m, d) ==
    [year |-> y, month |-> m, day |-> d, hour |-> 0, minute |-> 0, second |-> 0]

NoDate == [year |-> 0, month |-> 0, day |-> 0, hour |-> 0, minute |-> 0, second |-> 0]

\* a < b on datetimes
DtLess(a, b) ==
    LET ka == <<a.year, a.month, a.day, a.hour, a.minute, a.second>>
        kb == <<b.year, b.month, b.day, b.hour, b.minute, b.second>>
    IN \E i \in 1..6 : /\ ka[i] < kb[i]
                       /\ \A j \in 1..(i - 1) : ka[j] = kb[j]

-----------------------------------------------------------------------------
(* werkzeug.security: a salted one-way hash.  The digest is an uninterpreted *)
(* injective function of salt and plaintext.                                 *)

Digest(salt, plaintext) == <<"digest", salt, plaintext>>

generate_password_hash(plaintext, salt) ==
    [method |-> "scrypt", salt |-> salt, digest |-> Digest(salt, plaintext)]

\* a verification that accepts every password
check_password_hash_any(pwhash, plaintext) == TRUE

check_password_hash(pwhash, plaintext) ==
    pwhash.digest = Digest(pwhash.salt, plaintext)

-----------------------------------------------------------------------------
(* datetime.strptime(s, '%Y-%m-%d').  The format compiles to the regular   *)
(* expression  (\d\d\d\d)-(1[0-2]|0[1-9]|[1-9])-(3[01]|[12]\d|0[1-9]|[1-9]| [1-9])  *)
(* matched at the start of s; text left over after the match, a year of 0  *)
(* or a day the month does not have raise ValueError.                      *)

Digits == {"0", "1", "2", "3", "4", "5", "6", "7", "8", "9"}

NonZero == Digits \ {"0"}

DigitVal(c) ==
    CASE c = "0" -> 0 [] c = "1" -> 1 [] c = "2" -> 2 [] c = "3" -> 3
      [] c = "4" -> 4 [] c = "5" -> 5 [] c = "6" -> 6 [] c = "7" -> 7
      [] c = "8" -> 8 [] c = "9" -> 9 [] OTHER -> 0

\* the character of s at position i, "" past the end
At(s, i) == IF i \in 1..Len(s) THEN s[i] ELSE ""

\* the number the characters i..j of s spell, a leading blank counting as nothing
RECURSIVE NumAt(_, _, _)
NumAt(s, i, j) ==
    IF j < i THEN 0 ELSE 10 * NumAt(s, i, j - 1) + DigitVal(At(s, j))

IsLeap(y) == (y % 4 = 0 /\ y % 100 # 0) \/ y % 400 = 0

DaysInMonth(y, m) ==
    IF m = 2 THEN (IF IsLeap(y) THEN 29 ELSE 28)
    ELSE IF m \in {4, 6, 9, 11} THEN 30 ELSE 31

\* how many characters the month group takes at position i (0: no match);
\* the group must be followed by "-"
MonthLen(s, i) ==
    IF /\ \/ At(s, i) = "1" /\ At(s, i + 1) \in {"0", "1", "2"}
          \/ At(s, i) = "0" /\ At(s, i + 1) \in NonZero
       /\ At(s, i + 2) = "-"
    THEN 2
    ELSE IF At(s, i) \in NonZero /\ At(s, i + 1) = "-" THEN 1 ELSE 0

\* a day group that takes two digits and nothing else
DayLen_two_digits(s, i) ==
    IF At(s, i) \in Digits /\ At(s, i + 1) \in Digits THEN 2 ELSE 0

\* how many characters the day group takes at position i (0: no match)
DayLen(s, i) ==
    IF At(s, i) = "3" /\ At(s, i + 1) \in {"0", "1"} THEN 2
    ELSE IF At(s, i) \in {"1", "2"} /\ At(s, i + 1) \in Digits THEN 2
    ELSE IF At(s, i) = "0" /\ At(s, i + 1) \in NonZero THEN 2
    ELSE IF At(s, i) \in NonZero THEN 1
    ELSE IF At(s, i) = " " /\ At(s, i + 1) \in NonZero THEN 2
    ELSE 0

\* [ok |-> FALSE] stands for the ValueError
strptime(s) ==
    LET yearOk == (\A i \in 1..4 : At(s, i) \in Digits) /\ At(s, 5) = "-"
        mlen   == MonthLen(s, 6)
        dpos   == 6 + mlen + 1
        dlen   == DayLen(s, dpos)
        y      == NumAt(s, 1, 4)
        m      == NumAt(s, 6, 6 + mlen - 1)
        d      == NumAt(s, dpos, dpos + dlen - 1)
    IN IF /\ yearOk
          /\ mlen > 0
          /\ dlen > 0
          /\ dpos + dlen - 1 = Len(s)
          /\ y >= 1
          /\ d <= DaysInMonth(y, m)
       THEN [ok |-> TRUE, value |-> Datetime(y, m, d)]
       ELSE [ok |-> FALSE, value |-> NoDate]

\* due_date strings a client may submit
S_2025_01_20 == <<"2", "0", "2", "5", "-", "0", "1", "-", "2", "0">>
S_2025_1_5 == <<"2", "0", "2", "5", "-", "1", "-", "5">>
S_2025_02_30 == <<"2", "0", "2", "5", "-", "0", "2", "-", "3", "0">>
S_2025_13_01 == <<"2", "0", "2", "5", "-", "1", "3", "-", "0", "1">>
S_20_01_2025 == <<"2", "0", "/", "0", "1", "/", "2", "0", "2", "5">>
S_2025_01_201 == <<"2", "0", "2", "5", "-", "0", "1", "-", "2", "0", "1">>
S_Empty == <<>>

-----------------------------------------------------------------------------
(* The tables and their constraints *)

Ids(table) == {table[i].id : i \in 1..Len(table)}

\* User.query.filter_by(email=e).first(): the row, or None
RECURSIVE FirstByEmail(_, _)
FirstByEmail(table, e) ==
    IF table = <<>> THEN <<>>
    ELSE IF Head(table).email = e THEN <<Head(table)>>
    ELSE FirstByEmail(Tail(table), e)

\* the column without its unique constraint
EmailUnique_unconstrained(table, e) == TRUE

\* User.email is declared unique=True: the engine refuses a second row
EmailUnique(table, e) == \A i \in 1..Len(table) : table[i].email # e

\* the INSERT of a user row at commit; ok is FALSE for an IntegrityError
InsertUser(table, full_name, email, password, role) ==
    IF EmailUnique(table, email)
    THEN [ok |-> TRUE,
          table |-> Append(table, [id |-> Len(table) + 1, full_name |-> full_name,
                                   email |-> email, password |-> password,
                                   role |-> role])]
    ELSE [ok |-> FALSE, table |-> table]

\* Customer.user_id references user.id
CustomerFkOk(enforced, utable, user_id) == ~enforced \/ user_id \in Ids(utable)

\* Task.user_id references user.id, Task.customer_id references customer.id or is NULL
TaskFkOk(enforced, utable, ctable, user_id, customer_id) ==
    \/ ~enforced
    \/ /\ user_id \in Ids(utable)
       /\ customer_id = Null \/ customer_id[1] \in Ids(ctable)

\* a customer always given to the first user
NewCustomer_first_user(table, f, user_id) ==
    [id |-> Len(table) + 1, name |-> f.name, email |-> f.email, phone |-> f.phone,
     company |-> f.company, status |-> f.status, notes |-> f.notes,
     user_id |-> 1]

NewCustomer(table, f, user_id) ==
    [id |-> Len(table) + 1, name |-> f.name, email |-> f.email, phone |-> f.phone,
     company |-> f.company, status |-> f.status, notes |-> f.notes,
     user_id |-> user_id]

\* status is not given by add_task: the column default 'pending' applies
NewTask(table, title, description, due_date, status, priority, user_id, customer_id) ==
    [id |-> Len(table) + 1, title |-> title, description |-> description,
     due_date |-> due_date, status |-> status, priority |-> priority,
     user_id |-> user_id, customer_id |-> customer_id]

-----------------------------------------------------------------------------
(* seed_database *)

SeedCustomer1 ==
    [name |-> "John Doe", email |-> "john.doe@example.com", phone |-> "1234567890",
     company |-> "Example Corp", status |-> "Active", notes |-> None]

SeedCustomer2 ==
    [name |-> "Jane Smith", email |-> "jane.smith@example.com", phone |-> "0987654321",
     company |-> "Tech Solutions", status |-> "Prospect", notes |-> None]

\* a seeding whose sample rows are added outside the test for the admin
seed_database_dedented(u, c, t, salt) ==
    LET u1 == IF FirstByEmail(u, ADMIN_EMAIL) = <<>>
              THEN InsertUser(u, "Admin User", ADMIN_EMAIL,
                              generate_password_hash("admin123", salt), "admin").table
              ELSE u
        admin == FirstByEmail(u1, ADMIN_EMAIL)[1]
        c1 == Append(c, NewCustomer(c, SeedCustomer1, admin.id))
        c2 == Append(c1, NewCustomer(c1, SeedCustomer2, admin.id))
        t1 == Append(t, NewTask(t, "Follow-up with John Doe", "Discuss project updates",
                                Datetime(2025, 1, 20), "pending", "high",
                                admin.id, Ref(Len(c) + 1)))
        t2 == Append(t1, NewTask(t1, "Send proposal to Jane Smith",
                                 "Proposal for new CRM system",
                                 Datetime(2025, 1, 25), "pending", "medium",
                                 admin.id, Ref(Len(c) + 2)))
    IN [users |-> u1, customers |-> c2, tasks |-> t2]

\* the three tables after seed_database has run on (u, c, t)
seed_database(u, c, t, salt) ==
    IF FirstByEmail(u, ADMIN_EMAIL) = <<>>
    THEN LET u1 == InsertUser(u, "Admin User", ADMIN_EMAIL,
                              generate_password_hash("admin123", salt), "admin").table
             admin == u1[Len(u1)]
             customer1 == NewCustomer(c, SeedCustomer1, admin.id)
             c1 == Append(c, customer1)
             customer2 == NewCustomer(c1, SeedCustomer2, admin.id)
             c2 == Append(c1, customer2)
             task1 == NewTask(t, "Follow-up with John Doe", "Discuss project updates",
                              Datetime(2025, 1, 20), "pending", "high",
                              admin.id, Ref(customer1.id))
             t1 == Append(t, task1)
             task2 == NewTask(t1, "Send proposal to Jane Smith",
                              "Proposal for new CRM system",
                              Datetime(2025, 1, 25), "pending", "medium",
                              admin.id, Ref(customer2.id))
             t2 == Append(t1, task2)
         IN [users |-> u1, customers |-> c2, tasks |-> t2]
    ELSE [users |-> u, customers |-> c, tasks |-> t]

-----------------------------------------------------------------------------
(* Responses *)

NoPage == [user |-> <<>>, customers |-> <<>>, tasks |-> <<>>,
           total_customers |-> 0, total_tasks |-> 0, pending_tasks |-> 0]

Redirect(endpoint) == [status |-> 302, to |-> endpoint, body |-> "", page |-> NoPage]

Render(template, page) == [status |-> 200, to |-> "", body |-> template, page |-> page]

Plain(body, status) == [status |-> status, to |-> "", body |-> body, page |-> NoPage]

\* an exception no handler catches
ServerError == Plain("Internal Server Error", 500)

\* no route matches the path
NotFound == Plain("Not Found", 404)

\* a step that answers no request (start-up, or a request still in flight)
NoResponse == Plain("", 0)

NoForm == [none |-> TRUE]

Step(op, client, form, resp) == [op |-> op, client |-> client, form |-> form, resp |-> resp]

-----------------------------------------------------------------------------
(* Start-up: the module body, top to bottom *)

\* the first start of a deployment: an empty database, no cookie handed out
InitWith(modes, backends) ==
    /\ mode \in modes
    /\ fk_enforced \in backends
    /\ phase = "start"
    /\ routes = {}
    /\ users = <<>>
    /\ customers = <<>>
    /\ tasks = <<>>
    /\ session = [c \in Clients |-> EmptySession]
    /\ reg = [c \in Clients |-> <<>>]
    /\ last = Step("init", "-", NoForm, NoResponse)

Init == InitWith({"import", "main"}, BOOLEAN)

\* lines 50-104 register home, register and login; lines 171-173 seed
ModuleSeed ==
    /\ phase = "start"
    /\ \E salt \in Salts :
         LET db == seed_database(users, customers, tasks, salt)
         IN /\ users' = db.users
            /\ customers' = db.customers
            /\ tasks' = db.tasks
    /\ routes' = {"home", "register", "login"}
    /\ phase' = "seeded"
    /\ last' = Step("module_seed", "-", NoForm, NoResponse)
    /\ UNCHANGED <<mode, fk_enforced, session, reg>>

\* lines 176-220 register add_customer, add_task and logout; run as the main
\* program, lines 223-227 seed again and app.run() serves until the process
\* ends, so line 230 is not reached while the application serves
MainStartup ==
    /\ phase = "seeded"
    /\ mode = "main"
    /\ \E salt \in Salts :
         LET db == seed_database(users, customers, tasks, salt)
         IN /\ users' = db.users
            /\ customers' = db.customers
            /\ tasks' = db.tasks
    /\ routes' = routes \cup {"add_customer", "add_task", "logout"}
    /\ phase' = "serving"
    /\ last' = Step("main_startup", "-", NoForm, NoResponse)
    /\ UNCHANGED <<mode, fk_enforced, session, reg>>

\* imported by an external server: the main block is skipped, line 230
\* registers health_check, and the server then serves app
ImportStartup ==
    /\ phase = "seeded"
    /\ mode = "import"
    /\ routes' = routes \cup {"add_customer", "add_task", "logout", "health_check"}
    /\ phase' = "serving"
    /\ last' = Step("import_startup", "-", NoForm, NoResponse)
    /\ UNCHANGED <<mode, fk_enforced, users, customers, tasks, session, reg>>

\* the process ends and starts again: the database file stays, the secret key
\* of line 8 is drawn anew, so no cookie signed before decodes to a session
Restart ==
    /\ phase = "serving"
    /\ phase' = "start"
    /\ routes' = {}
    /\ session' = [c \in Clients |-> EmptySession]
    /\ reg' = [c \in Clients |-> <<>>]
    /\ last' = Step("restart", "-", NoForm, NoResponse)
    /\ UNCHANGED <<mode, fk_enforced, users, customers, tasks>>

-----------------------------------------------------------------------------
(* The session cookie.  flash() keeps its messages in the session under    *)
(* "_flashes"; the model keeps the key, with TRUE for the list of          *)
(* messages.  Only a template calling get_flashed_messages() removes the   *)
(* key; the templates are not part of app.py and no handler reads the key, *)
(* so the model leaves it in place once set.                               *)

SetUser(s, uid) ==
    [k \in (DOMAIN s) \cup {"user_id"} |-> IF k = "user_id" THEN uid ELSE s[k]]

flash(s) ==
    [k \in (DOMAIN s) \cup {"_flashes"} |-> IF k = "_flashes" THEN TRUE ELSE s[k]]

-----------------------------------------------------------------------------
(* Queries of home *)

\* a limit that lets one row more through
limit_off_by_one(rows, n) == SubSeq(rows, 1, Min(n + 1, Len(rows)))

\* Query.limit(n)
limit(rows, n) == SubSeq(rows, 1, Min(n, Len(rows)))

\* row sorts before e; rows of one due_date come in an order the engine
\* chooses: tie is "asc" for insertion order, "desc" for its reverse
Before(row, e, tie) ==
    \/ DtLess(row.due_date, e.due_date)
    \/ tie = "desc" /\ row.due_date = e.due_date

RECURSIVE InsertByDue(_, _, _)
InsertByDue(row, sorted, tie) ==
    IF sorted = <<>> THEN <<row>>
    ELSE IF Before(row, Head(sorted), tie) THEN <<row>> \o sorted
    ELSE <<Head(sorted)>> \o InsertByDue(row, Tail(sorted), tie)

RECURSIVE SortByDue(_, _)
SortByDue(rows, tie) ==
    IF rows = <<>> THEN <<>>
    ELSE InsertByDue(rows[Len(rows)], SortByDue(SubSeq(rows, 1, Len(rows) - 1), tie), tie)

\* Query.order_by(Task.due_date)
order_by_due_date(rows, tie) == SortByDue(rows, tie)

\* Query.filter_by(user_id=uid)
filter_by_user(table, uid) ==
    LET Own(r) == r.user_id = uid IN SelectSeq(table, Own)

\* Query.filter_by(user_id=uid, status=st).count()
count_by_user_status(table, uid, st) ==
    LET Hit(r) == r.user_id = uid /\ r.status = st IN Len(SelectSeq(table, Hit))

\* User.query.get(uid)
get_user(table, uid) ==
    LET Hit(r) == r.id = uid IN SelectSeq(table, Hit)

\* the rows a dashboard shows at most (line 57)
DASHBOARD_LIMIT == 5

\* lines 55-70: what home hands to the template
Dashboard(uid, tie) ==
    LET cs == filter_by_user(customers, uid)
        ts == limit(order_by_due_date(filter_by_user(tasks, uid), tie), DASHBOARD_LIMIT)
    IN [user |-> get_user(users, uid),
        customers |-> cs,
        tasks |-> ts,
        total_customers |-> Len(cs),
        total_tasks |-> Len(ts),
        pending_tasks |-> count_by_user_status(tasks, uid, "pending")]

-----------------------------------------------------------------------------
(* Forms *)

GetForm == [method |-> "GET"]

RegisterForms ==
    [method : {"POST"}, full_name : {"Alice"}, email : Emails, password : {"pw"}]

LoginForms == [method : {"POST"}, email : Emails, password : Passwords]

CustomerForms ==
    [name : {"Acme"}, email : {"info@acme.example"}, phone : {"555"},
     company : {"Acme Inc"}, status : {"Active"}, notes : {"-"}]

\* customer_id is Null when the form has no such field
TaskForms(dues, customer_ids) ==
    [title : {"Call"}, description : {"-"}, due_date : dues, priority : {"high"},
     customer_id : customer_ids]

-----------------------------------------------------------------------------
(* Request handlers.  A request reaches its handler only when the           *)
(* application serves and the endpoint is registered.                       *)

NotRouted(op, c) ==
    /\ last' = Step(op, c, NoForm, NotFound)
    /\ UNCHANGED <<mode, fk_enforced, phase, routes, users, customers, tasks, session, reg>>

\* a gate that also flashes a message
RedirectToLogin_flashing(op, c, f) ==
    /\ last' = Step(op, c, f, Redirect("login"))
    /\ session' = [session EXCEPT ![c] = flash(session[c])]
    /\ UNCHANGED <<mode, fk_enforced, phase, routes, users, customers, tasks, reg>>

\* the gate of lines 52-53, 178-179 and 199-200, for a session without user_id
RedirectToLogin(op, c, f) ==
    /\ last' = Step(op, c, f, Redirect("login"))
    /\ UNCHANGED <<mode, fk_enforced, phase, routes, users, customers, tasks, session, reg>>

\* GET /
home(c) ==
    /\ phase = "serving"
    /\ IF "home" \notin routes THEN NotRouted("home", c)
       ELSE IF ~LoggedIn(session[c])
       THEN RedirectToLogin("home", c, NoForm)
       ELSE /\ \E tie \in {"asc", "desc"} :
                 last' = Step("home", c, NoForm,
                              Render("dashboard.html", Dashboard(session[c]["user_id"], tie)))
            /\ UNCHANGED <<mode, fk_enforced, phase, routes, users, customers, tasks,
                           session, reg>>

\* GET /register, and POST /register up to the check of line 76
register(c, f) ==
    /\ phase = "serving"
    /\ reg[c] = <<>>
    /\ IF "register" \notin routes THEN NotRouted("register", c)
       ELSE IF f.method = "GET"
       THEN /\ last' = Step("register", c, f, Render("register.html", NoPage))
            /\ UNCHANGED <<mode, fk_enforced, phase, routes, users, customers, tasks,
                           session, reg>>
       ELSE IF FirstByEmail(users, f.email) # <<>>
       THEN /\ session' = [session EXCEPT ![c] = flash(session[c])]
            /\ last' = Step("register", c, f, Redirect("register"))
            /\ UNCHANGED <<mode, fk_enforced, phase, routes, users, customers, tasks, reg>>
       ELSE /\ reg' = [reg EXCEPT ![c] = <<f>>]
            /\ last' = Step("register", c, f, NoResponse)
            /\ UNCHANGED <<mode, fk_enforced, phase, routes, users, customers, tasks,
                           session>>

\* POST /register from line 80 on: hash, add, commit
register_commit(c) ==
    /\ phase = "serving"
    /\ reg[c] # <<>>
    /\ \E salt \in Salts :
         LET f == reg[c][1]
             r == InsertUser(users, f.full_name, f.email,
                             generate_password_hash(f.password, salt), "user")
         IN /\ users' = r.table
            /\ IF r.ok
               THEN /\ session' = [session EXCEPT ![c] = flash(session[c])]
                    /\ last' = Step("register_commit", c, f, Redirect("login"))
               ELSE /\ session' = session
                    /\ last' = Step("register_commit", c, f, ServerError)
    /\ reg' = [reg EXCEPT ![c] = <<>>]
    /\ UNCHANGED <<mode, fk_enforced, phase, routes, customers, tasks>>

\* GET and POST /login
login(c, f) ==
    /\ phase = "serving"
    /\ IF "login" \notin routes THEN NotRouted("login", c)
       ELSE IF f.method = "GET"
       THEN /\ last' = Step("login", c, f, Render("login.html", NoPage))
            /\ UNCHANGED <<mode, fk_enforced, phase, routes, users, customers, tasks,
                           session, reg>>
       ELSE LET user == FirstByEmail(users, f.email)
            IN IF user # <<>> /\ check_password_hash(user[1].password, f.password)
               THEN /\ session' = [session EXCEPT
                                     ![c] = flash(SetUser(session[c], user[1].id))]
                    /\ last' = Step("login", c, f, Redirect("home"))
                    /\ UNCHANGED <<mode, fk_enforced, phase, routes, users, customers,
                                   tasks, reg>>
               ELSE /\ session' = [session EXCEPT ![c] = flash(session[c])]
                    /\ last' = Step("login", c, f, Render("login.html", NoPage))
                    /\ UNCHANGED <<mode, fk_enforced, phase, routes, users, customers,
                                   tasks, reg>>

\* POST /customer/add
add_customer(c, f) ==
    /\ phase = "serving"
    /\ IF "add_customer" \notin routes THEN NotRouted("add_customer", c)
       ELSE IF ~LoggedIn(session[c])
       THEN RedirectToLogin("add_customer", c, f)
       ELSE LET uid == session[c]["user_id"]
            IN IF CustomerFkOk(fk_enforced, users, uid)
               THEN /\ Len(customers) < MaxCustomers
                    /\ customers' = Append(customers, NewCustomer(customers, f, uid))
                    /\ session' = [session EXCEPT ![c] = flash(session[c])]
                    /\ last' = Step("add_customer", c, f, Redirect("home"))
                    /\ UNCHANGED <<mode, fk_enforced, phase, routes, users, tasks, reg>>
               ELSE /\ last' = Step("add_customer", c, f, ServerError)
                    /\ UNCHANGED <<mode, fk_enforced, phase, routes, users, customers,
                                   tasks, session, reg>>

\* POST /task/add; cap bounds the table
add_task(c, f, cap) ==
    /\ phase = "serving"
    /\ IF "add_task" \notin routes THEN NotRouted("add_task", c)
       ELSE IF ~LoggedIn(session[c])
       THEN RedirectToLogin("add_task", c, f)
       ELSE LET uid == session[c]["user_id"]
                due == strptime(f.due_date)
            IN IF ~due.ok
               THEN /\ last' = Step("add_task", c, f, ServerError)
                    /\ UNCHANGED <<mode, fk_enforced, phase, routes, users, customers,
                                   tasks, session, reg>>
               ELSE IF TaskFkOk(fk_enforced, users, customers, uid, f.customer_id)
               THEN /\ Len(tasks) < cap
                    /\ tasks' = Append(tasks, NewTask(tasks, f.title, f.description,
                                                      due.value, "pending", f.priority,
                                                      uid, f.customer_id))
                    /\ session' = [session EXCEPT ![c] = flash(session[c])]
                    /\ last' = Step("add_task", c, f, Redirect("home"))
                    /\ UNCHANGED <<mode, fk_enforced, phase, routes, users, customers, reg>>
               ELSE /\ last' = Step("add_task", c, f, ServerError)
                    /\ UNCHANGED <<mode, fk_enforced, phase, routes, users, customers,
                                   tasks, session, reg>>

\* GET /logout
logout(c) ==
    /\ phase = "serving"
    /\ IF "logout" \notin routes THEN NotRouted("logout", c)
       ELSE /\ session' = [session EXCEPT ![c] = flash(Pop(session[c]))]
            /\ last' = Step("logout", c, NoForm, Redirect("login"))
            /\ UNCHANGED <<mode, fk_enforced, phase, routes, users, customers, tasks, reg>>

\* GET /healthz
health_check(c) ==
    /\ phase = "serving"
    /\ IF "health_check" \notin routes THEN NotRouted("health_check", c)
       ELSE /\ last' = Step("health_check", c, NoForm, Plain("OK", 200))
            /\ UNCHANGED <<mode, fk_enforced, phase, routes, users, customers, tasks,
                           session, reg>>

-----------------------------------------------------------------------------
(* Specifications *)

\* Spec: every operation, two clients, both ways of starting, both kinds of engine
DueDates == {S_2025_01_20, S_2025_13_01}

Next ==
    \/ ModuleSeed
    \/ MainStartup
    \/ ImportStartup
    \/ Restart
    \/ \E c \in Clients : home(c)
    \/ \E c \in Clients, f \in RegisterForms \cup {GetForm} : register(c, f)
    \/ \E c \in Clients : register_commit(c)
    \/ \E c \in Clients, f \in LoginForms \cup {GetForm} : login(c, f)
    \/ \E c \in Clients, f \in CustomerForms : add_customer(c, f)
    \/ \E c \in Clients, f \in TaskForms(DueDates, {Null}) : add_task(c, f, MaxTasks)
    \/ \E c \in Clients : logout(c)
    \/ \E c \in Clients : health_check(c)

Spec == Init /\ [][Next]_vars

\* SpecTask: add_task on every kind of due_date and customer_id, one client,
\* both kinds of engine
TaskDueDates ==
    {S_2025_01_20, S_2025_1_5, S_2025_02_30, S_2025_13_01, S_20_01_2025,
     S_2025_01_201, S_Empty}

TaskCustomerIds == {Null, Ref(1), Ref(9)}

InitTask == InitWith({"import"}, BOOLEAN)

NextTask ==
    \/ ModuleSeed
    \/ ImportStartup
    \/ \E f \in RegisterForms : register("c1", f)
    \/ register_commit("c1")
    \/ \E f \in LoginForms : login("c1", f)
    \/ \E f \in TaskForms(TaskDueDates, TaskCustomerIds) : add_task("c1", f, TaskMaxTasks)

SpecTask == InitTask /\ [][NextTask]_vars

\* SpecDash: the dashboard of a user who owns more tasks than it shows
DashDueDates == {S_2025_01_20, S_2025_1_5}

InitDash == InitWith({"import"}, {FALSE})

NextDash ==
    \/ ModuleSeed
    \/ ImportStartup
    \/ \E f \in RegisterForms : register("c1", f)
    \/ register_commit("c1")
    \/ \E f \in LoginForms : login("c1", f)
    \/ \E f \in TaskForms(DashDueDates, {Null}) : add_task("c1", f, DashMaxTasks)
    \/ home("c1")

SpecDash == InitDash /\ [][NextDash]_vars

-----------------------------------------------------------------------------
(* Properties *)

\* the client and the form of the step just taken, and the session it came with
Client == last'.client

Sent == last'.form

Took(op) == last'.op = op /\ last'.resp.status # 404

HoldsEmail(table, e) == \E i \in 1..Len(table) : table[i].email = e

\* nothing is removed from or changed in a table
Kept(old, new) ==
    /\ Len(new) >= Len(old)
    /\ \A i \in 1..Len(old) : new[i] = old[i]

----
\* C1

EmailsDistinct ==
    \A i, j \in 1..Len(users) : users[i].email = users[j].email => i = j

\* a register POST, at its check or at its commit, whose email a stored User holds
RegisterOfHeldEmail ==
    /\ \/ Took("register") /\ Sent.method = "POST"
       \/ Took("register_commit")
    /\ HoldsEmail(users, Sent.email)

\* C1: no two stored User rows ever have the same email, also when two register
\* requests for one email interleave between the check and the commit; and a
\* register POST whose email a stored User holds creates no User row.
C1_UniqueEmail ==
    /\ []EmailsDistinct
    /\ [][RegisterOfHeldEmail => users' = users]_vars

\* two registrations of one email passed the check, one committed, and the
\* commit of the other was refused
C1_Witness ==
    /\ last.op = "register_commit"
    /\ last.resp = ServerError
    /\ HoldsEmail(users, last.form.email)

----
\* C2

\* the credentials of f are those of a stored User: the row's id, else nothing
RECURSIVE Matching(_, _)
Matching(table, f) ==
    IF table = <<>> THEN {}
    ELSE (IF /\ Head(table).email = f.email
             /\ Head(table).password.digest = Digest(Head(table).password.salt, f.password)
          THEN {Head(table).id} ELSE {})
         \cup Matching(Tail(table), f)

Protected == {"home", "add_customer", "add_task"}

C2_Step ==
    \* a login with the credentials of a stored User opens the session of that User
    /\ Took("login") /\ Sent.method = "POST" /\ Matching(users, Sent) # {}
         => /\ LoggedIn(session'[Client])
            /\ session'[Client]["user_id"] \in Matching(users, Sent)
            /\ last'.resp = Redirect("home")
    \* the dashboard asked for on an open session is rendered, not redirected
    /\ Took("home") /\ LoggedIn(session[Client])
         => /\ last'.resp.status = 200
            /\ last'.resp.body = "dashboard.html"
            /\ last'.resp.page.user # <<>>
            /\ last'.resp.page.user[1].id = session[Client]["user_id"]
    \* logout closes the session
    /\ Took("logout") => ~LoggedIn(session'[Client])
    \* on a closed session the protected pages redirect to login
    /\ last'.op \in Protected /\ last'.resp.status # 404 /\ ~LoggedIn(session[Client])
         => last'.resp = Redirect("login")
    \* a session opens only by a login that succeeds on it, and closes only by
    \* its logout or by the end of the process that signed its cookie
    /\ \A c \in Clients :
         /\ ~LoggedIn(session[c]) /\ LoggedIn(session'[c])
              => Took("login") /\ Client = c /\ Sent.method = "POST"
                               /\ Matching(users, Sent) # {}
         /\ LoggedIn(session[c]) /\ ~LoggedIn(session'[c])
              => (Took("logout") /\ Client = c) \/ last'.op = "restart"

\* C2: on any session, a login with the email and password of a stored User is
\* followed by dashboard requests that are rendered and not redirected; after a
\* logout the dashboard, add_customer and add_task redirect to login until a
\* login succeeds again.
C2_LoginLogout == [][C2_Step]_vars

\* a dashboard rendered for one client while the session another client
\* has used is closed
C2_Witness ==
    /\ last.op = "home"
    /\ last.resp.body = "dashboard.html"
    /\ \E c \in Clients : c # last.client /\ ~LoggedIn(session[c])
                          /\ "_flashes" \in DOMAIN session[c]

----
\* C3

C3_Step ==
    /\ last'.op \in Protected /\ last'.resp.status # 404 /\ ~LoggedIn(session[Client])
         => /\ last'.resp = Redirect("login")
            /\ UNCHANGED <<users, customers, tasks, session>>
    /\ (Len(customers') > Len(customers) \/ Len(tasks') > Len(tasks))
         => \/ last'.op \in {"module_seed", "main_startup"}
            \/ /\ last'.op \in {"add_customer", "add_task"}
               /\ LoggedIn(session[Client])

\* C3: a request to home, add_customer or add_task on a session without a user
\* id is answered by a redirect to login and changes neither a table nor the
\* session; so no request from such a session ever creates a Customer or Task.
C3_Gate == [][C3_Step]_vars

\* add_task was asked for without a login, and redirected
C3_Witness ==
    /\ last.op = "add_task"
    /\ last.resp = Redirect("login")
    /\ ~LoggedIn(session[last.client])

----
\* C4

Admins == {i \in 1..Len(users) : users[i].email = ADMIN_EMAIL}

SeededCustomers(name) == {i \in 1..Len(customers) : customers[i].name = name}

SeededTasks(title) == {i \in 1..Len(tasks) : tasks[i].title = title}

\* the seeded rows are there once each
SeededOnce ==
    /\ Cardinality(Admins) = 1
    /\ Cardinality(SeededCustomers("John Doe")) = 1
    /\ Cardinality(SeededCustomers("Jane Smith")) = 1
    /\ Cardinality(SeededTasks("Follow-up with John Doe")) = 1
    /\ Cardinality(SeededTasks("Send proposal to Jane Smith")) = 1

\* C4: seed_database run once or twice on an empty store leaves exactly one User
\* with the admin email, two seeded Customers and two seeded Tasks; and run while
\* a User with the admin email exists it changes no table, whatever Customers and
\* Tasks exist.
C4_SeedIdempotent ==
    /\ [](phase # "start" => SeededOnce)
    /\ [][last'.op \in {"module_seed", "main_startup"} /\ HoldsEmail(users, ADMIN_EMAIL)
            => UNCHANGED <<users, customers, tasks>>]_vars

\* the second seeding of a main-program start, on a store that requests have grown
C4_Witness ==
    /\ last.op = "main_startup"
    /\ Len(customers) > 2
    /\ Len(tasks) > 2

----
\* C5

\* C5 (as claimed): every stored Task whose customer_id is present references
\* the id of a stored Customer, whatever customer_id add_task was sent.
C5_TaskCustomerExists ==
    \A i \in 1..Len(tasks) :
        tasks[i].customer_id = Null \/ tasks[i].customer_id[1] \in Ids(customers)

----
\* C6

Owned(table, uid) == {i \in 1..Len(table) : table[i].user_id = uid}

C6_Page(page, uid) ==
    LET shown == page.tasks
        shownIds == {shown[k].id : k \in 1..Len(shown)}
    IN /\ Len(shown) <= DASHBOARD_LIMIT
       /\ Len(shown) = Min(DASHBOARD_LIMIT, Cardinality(Owned(tasks, uid)))
       /\ \A k \in 1..Len(shown) :
            \E i \in Owned(tasks, uid) : tasks[i] = shown[k]
       /\ Cardinality(shownIds) = Len(shown)
       /\ \A k, l \in 1..Len(shown) :
            k < l => ~DtLess(shown[l].due_date, shown[k].due_date)
       /\ \A i \in Owned(tasks, uid) :
            tasks[i].id \notin shownIds
              => \A k \in 1..Len(shown) : ~DtLess(tasks[i].due_date, shown[k].due_date)
       /\ page.total_tasks = Len(shown)
       /\ Len(page.customers) = Cardinality(Owned(customers, uid))
       /\ {page.customers[k] : k \in 1..Len(page.customers)}
            = {customers[i] : i \in Owned(customers, uid)}

\* C6: the dashboard of an authenticated request lists at most 5 tasks, sorted by
\* due_date ascending, all owned by the session user and none due later than an
\* owned task left out; total_tasks is the length of that list; the customers
\* listed are exactly those the session user owns.
C6_Dashboard ==
    (last.op = "home" /\ last.resp.status = 200)
        => C6_Page(last.resp.page, session[last.client]["user_id"])

\* a dashboard of 5 tasks for a user who owns more, two of the tasks listed
\* sharing a due_date
C6_Witness ==
    /\ last.op = "home"
    /\ last.resp.status = 200
    /\ Len(last.resp.page.tasks) = 5
    /\ Cardinality(Owned(tasks, session[last.client]["user_id"])) > 5
    /\ last.resp.page.tasks[4].due_date = last.resp.page.tasks[5].due_date

----
\* C7

C7_Step ==
    Took("login") /\ Sent.method = "POST" /\ Matching(users, Sent) = {}
      => /\ LoggedIn(session'[Client])
              => /\ LoggedIn(session[Client])
                 /\ session'[Client]["user_id"] = session[Client]["user_id"]
         /\ \A c \in Clients \ {Client} : session'[c] = session[c]
         /\ UNCHANGED <<users, customers, tasks>>
         /\ last'.resp = Render("login.html", NoPage)

\* C7: a login POST whose email no stored User has, or whose password does not
\* verify, gives the session no user id it did not carry, leaves the tables
\* unchanged and answers with the login form, not with a redirect.
C7_FailedLogin == [][C7_Step]_vars

\* a login refused for the password, the email being that of a stored User
C7_Witness ==
    /\ last.op = "login"
    /\ last.form.method = "POST"
    /\ last.resp.body = "login.html"
    /\ HoldsEmail(users, last.form.email)
    /\ ~LoggedIn(session[last.client])

----
\* C8

\* s has the exact shape YYYY-MM-DD: four, two and two digits
IsYYYYMMDD(s) ==
    /\ Len(s) = 10
    /\ \A i \in {1, 2, 3, 4, 6, 7, 9, 10} : s[i] \in Digits
    /\ s[5] = "-" /\ s[8] = "-"

\* s is a YYYY-MM-DD string that names a day of the calendar
IsValidYYYYMMDD(s) ==
    /\ IsYYYYMMDD(s)
    /\ NumAt(s, 1, 4) >= 1
    /\ NumAt(s, 6, 7) \in 1..12
    /\ NumAt(s, 9, 10) \in 1..DaysInMonth(NumAt(s, 1, 4), NumAt(s, 6, 7))

DigitChars == <<"0", "1", "2", "3", "4", "5", "6", "7", "8", "9">>

DigitChar(k) == DigitChars[k + 1]

Numeral2(n) == <<DigitChar(n \div 10), DigitChar(n % 10)>>

Numeral4(n) ==
    <<DigitChar(n \div 1000), DigitChar((n \div 100) % 10),
      DigitChar((n \div 10) % 10), DigitChar(n % 10)>>

\* the ways '%m' and '%d' let a number be written
MonthSpellings(m) == {Numeral2(m)} \cup (IF m < 10 THEN {<<DigitChar(m)>>} ELSE {})

DaySpellings(d) ==
    {Numeral2(d)} \cup (IF d < 10 THEN {<<DigitChar(d)>>, <<" ", DigitChar(d)>>} ELSE {})

\* the years of the strings submitted
YearsSubmitted == {2025}

StartsWith(s, prefix) ==
    Len(s) >= Len(prefix) /\ SubSeq(s, 1, Len(prefix)) = prefix

\* the dates s spells: a four-digit year, "-", a month, "-", a day of that month
Accepted(s) ==
    UNION {
      UNION {
        UNION {
          {Datetime(y, m, d) :
             d \in {e \in 1..DaysInMonth(y, m) :
                      \E ds \in DaySpellings(e) :
                          s = Numeral4(y) \o <<"-">> \o ms \o <<"-">> \o ds}}
          : ms \in {x \in MonthSpellings(m) :
                      StartsWith(s, Numeral4(y) \o <<"-">> \o x \o <<"-">>)}}
        : m \in 1..12}
      : y \in YearsSubmitted}

\* add_task stored one Task, due on date and pending, and nothing else changed
Created(date) ==
    /\ Len(tasks') = Len(tasks) + 1
    /\ Kept(tasks, tasks')
    /\ tasks'[Len(tasks')].due_date = date
    /\ tasks'[Len(tasks')].status = "pending"
    /\ UNCHANGED <<users, customers>>
    /\ last'.resp = Redirect("home")

Failed ==
    /\ last'.resp = ServerError
    /\ UNCHANGED <<users, customers, tasks, session>>

C8_Step_Original ==
    Took("add_task") /\ LoggedIn(session[Client])
      => IF IsValidYYYYMMDD(Sent.due_date)
         THEN Created(Datetime(NumAt(Sent.due_date, 1, 4), NumAt(Sent.due_date, 6, 7),
                               NumAt(Sent.due_date, 9, 10)))
         ELSE Failed

\* C8 (as claimed): an authenticated add_task whose due_date is not a valid
\* "YYYY-MM-DD" string ends in a server error and changes nothing; one whose
\* due_date is such a string creates one Task, due that day at midnight, pending.
C8_Original == [][C8_Step_Original]_vars

Dangling(customer_id) == customer_id # Null /\ customer_id[1] \notin Ids(customers)

C8_Step ==
    Took("add_task") /\ LoggedIn(session[Client])
      => LET dates == Accepted(Sent.due_date)
         IN IF dates = {}
            THEN Failed
            ELSE IF fk_enforced /\ Dangling(Sent.customer_id)
            THEN Failed
            ELSE \E date \in dates : Created(date)

\* C8 (amended): an authenticated add_task whose due_date strptime('%Y-%m-%d')
\* rejects ends in a server error and changes nothing.  A due_date of a
\* four-digit year and a month and a day written with one or two digits (as
\* "2025-1-5") is accepted like a "YYYY-MM-DD" one, and creates one Task, due
\* that day at midnight and pending -- unless the engine enforces foreign keys
\* and customer_id names no Customer: then the commit fails with a server
\* error and nothing changes.
C8_AddTaskDates == [][C8_Step]_vars

\* a Task stored for the due_date "2025-1-5"
C8_Witness ==
    /\ last.op = "add_task"
    /\ last.form.due_date = S_2025_1_5
    /\ last.resp = Redirect("home")
    /\ tasks[Len(tasks)].due_date = Datetime(2025, 1, 5)

----
\* C9

\* C9 (as claimed): while the application serves, however it was started,
\* GET /healthz answers "OK" with status 200 on any session and changes neither
\* a session nor a table.
C9_Healthz ==
    [][last'.op = "health_check"
         => /\ last'.resp = Plain("OK", 200)
            /\ UNCHANGED <<users, customers, tasks, session>>]_vars

----
\* C10

OwnedByOneUser(row) == Cardinality({i \in 1..Len(users) : users[i].id = row.user_id}) = 1

C10_Inv ==
    /\ \A i \in 1..Len(customers) : OwnedByOneUser(customers[i])
    /\ \A i \in 1..Len(tasks) : OwnedByOneUser(tasks[i])
    /\ \A c \in Clients : LoggedIn(session[c]) => session[c]["user_id"] \in Ids(users)

C10_Step ==
    /\ Took("add_customer") /\ last'.resp = Redirect("home")
         => /\ Len(customers') = Len(customers) + 1
            /\ customers'[Len(customers')].user_id = session[Client]["user_id"]
    /\ Took("add_task") /\ last'.resp = Redirect("home")
         => /\ Len(tasks') = Len(tasks) + 1
            /\ tasks'[Len(tasks')].user_id = session[Client]["user_id"]
    /\ Kept(users, users')
    /\ Kept(customers, customers')
    /\ Kept(tasks, tasks')

\* C10: every stored Customer and Task has the id of exactly one stored User as
\* user_id, and a user id carried by a session is that of a stored User; a row
\* made by add_customer or add_task gets the user id the requesting session
\* carries; no request changes the user_id of, or deletes, a stored row.
C10_Ownership == []C10_Inv /\ [][C10_Step]_vars

\* a Customer and a Task made for a registered user other than the admin
C10_Witness ==
    /\ \E i \in 1..Len(customers) : customers[i].user_id = 2
    /\ \E i \in 1..Len(tasks) : tasks[i].user_id = 2

=============================================================================
